---------------------------- MODULE Spec2Model ----------------------------
(***************************************************************************)
(* A model of inelegant.process: Process (a multiprocessing.Process       *)
(* subclass that captures the result or the exception of its target, can  *)
(* be used as a context manager, and talks to generator targets) and      *)
(* Conversation (the two-queue protocol that drives a generator target    *)
(* in the child).                                                          *)
(*                                                                         *)
(* Next to it, small models of inelegant.toggle.Toggle and of the         *)
(* context manager of inelegant.net.Server, each explored by a            *)
(* specification of its own while the other objects stay as constructed.  *)
(*                                                                         *)
(* Python values are modelled as strings: "None" is None, "1", "2", ...   *)
(* are the integers, and an exception is the name of its class.           *)
(* Time is counted in ticks of the clock join(timeout) polls against.     *)
(***************************************************************************)
EXTENDS Naturals, Integers, Sequences, FiniteSets, TLC

\* ------------------------------------------------------------- bounds
\* The longest generator body (number of yield points) that is explored.
MaxYields == 2
\* How many send()/go() calls the parent issues at most.
MaxSends == 2
\* How many get() calls the parent issues at most.
MaxGets == 2

\* How deep with-blocks on the toggle are nested at most.
MaxDepth == 3
\* How many connections clients open to the server at most.
MaxRequests == 2

\* ------------------------------------------------------ program constants
\* join(timeout=None): the wait has no deadline.
NoTimeout == -1
\* Process.__init__(timeout=1): the default, one tick of the clock.
DefaultTimeout == 1

None == "None"
True == "True"
False == "False"

\* ------------------------------------------------------------- the pipes
\* Each multiprocessing.Queue writes through an OS pipe of its own, whose
\* buffer holds 64 KiB. Values come in two sizes: a few bytes when pickled
\* (a pipe holds as many of these as the bounds let through), and large:
\* more than the buffer of a pipe holds, as 'x' * 2 ** 20 is.
Big == "big"
\* An exception whose arguments are that large.
BigError == "BigError"
Large(v) == v \in {Big, BigError}

\* What a pipe holds of a large value whose writer was killed in the
\* middle of its write: the beginning of a message that never completes.
Truncated == "truncated"

\* A pipe is full: it holds the beginning of a large value, and the
\* feeder thread that writes it is blocked in its write until the reader
\* has taken the value.
Full(pipe) == \E i \in 1..Len(pipe) : Large(pipe[i])

\* What is left in a pipe when its writer is killed.
Cut(pipe) ==
    IF Full(pipe)
    THEN [i \in 1..Len(pipe) |->
            IF Large(pipe[i]) THEN Truncated ELSE pipe[i]]
    ELSE pipe

\* Queue.empty() is `not self._poll()`: there are bytes in the pipe.
empty(pipe) == pipe = <<>>

\* Queue.get() can return: the pipe holds a message that is complete, or
\* that its writer, alive, completes while the reader reads.
Readable(pipe) == pipe # <<>> /\ Head(pipe) # Truncated

\* ---------------------------------------------------------------- targets
\* The value the i-th `yield <constant>` of a generator target yields.
YieldValue(i) == CASE i = 1 -> "1" [] i = 2 -> "2" [] OTHER -> "5"

\* def serve(): yield 1; yield 2; yield 5   (cut to n yield points)
ConstBody(n) == [i \in 1..n |-> YieldValue(i)]
\* def serve(value): value = yield value; value = yield value; ...
EchoBody(n) == [i \in 1..n |-> "echo"]
\* def serve(): yield 'x' * 2 ** 20
BigBody == << Big >>

\* A target: gen (inspect.isgeneratorfunction), named (it has __name__),
\* body (what each yield point yields), end (how the call ends), val (the
\* returned value or the raised exception).
\* Process.__init__(target=None): the default. Conversation(None) fails,
\* so there is no conversation; None has no __name__; and run() calling
\* None raises TypeError inside its try.
NoTarget ==
    [gen |-> FALSE, named |-> FALSE, body |-> <<>>, end |-> "raise",
     val |-> "TypeError"]

FnTargets ==
    { [gen |-> FALSE, named |-> TRUE, body |-> <<>>, end |-> "return", val |-> v]
        : v \in {"3", None, Big} }
    \cup
    { [gen |-> FALSE, named |-> TRUE, body |-> <<>>, end |-> "raise", val |-> e]
        : e \in {"AssertionError", BigError} }
    \cup
    { [gen |-> FALSE, named |-> TRUE, body |-> <<>>, end |-> "loop", val |-> None],
      \* functools.partial(f): callable, not a generator function, no __name__
      [gen |-> FALSE, named |-> FALSE, body |-> <<>>, end |-> "return", val |-> "3"],
      NoTarget }

\* Generator targets: with one yield point at most they yield constants
\* (a small one or a large one), with more they yield what they were
\* sent; or they raise, when first advanced or after a yield.
GenTargets ==
    { [gen |-> TRUE, named |-> TRUE, body |-> b, end |-> "stop", val |-> None]
        : b \in { ConstBody(n) : n \in 0..1 } \cup { BigBody } \cup
                { EchoBody(n) : n \in 2..MaxYields } }
    \cup
    { [gen |-> TRUE, named |-> TRUE, body |-> ConstBody(n), end |-> "raise",
       val |-> "AssertionError"] : n \in 0..1 }

Targets == FnTargets \cup GenTargets

\* The argument test_send_receive_data binds: Process(target=serve, args=(1,)).
Arg == "1"

\* What send()/go() put on the parent-to-child queue: go() sends None.
SendVals == {"2"}

Timeouts == {0, DefaultTimeout, NoTimeout}

VARIABLES
    target,         \* the callable given to Process(target=...)
    timeout,        \* self.timeout, in ticks, or NoTimeout
    terminate,      \* self._terminate
    reraise,        \* self.reraise
    result,         \* self.result
    exception,      \* self.exception
    error_queue,    \* self.error_queue
    result_queue,   \* self.result_queue: what is in its pipe
    error_buffer,   \* child: error_queue's buffer, not yet fed to the pipe
    result_buffer,  \* child: result_queue's buffer, not yet fed to the pipe
    child_to_parent,\* conversation.child_to_parent: what is in its pipe
    parent_to_child,\* conversation.parent_to_child: what is in its pipe
    child_to_parent_buffer, \* child: child_to_parent's buffer, not yet fed
    parent_to_child_buffer, \* parent: parent_to_child's buffer, not yet fed
    started,        \* multiprocessing: self._popen is not None
    cstate,         \* where the child process is
    outcome,        \* child: <<"ok", value>> or <<"err", exception>> of run()'s try
    genpos,         \* child: the yield point the generator is suspended at
    genval,         \* child: the generator's local variable `value`
    to_parent,      \* child: converse()'s local to_parent
    sigterm,        \* a SIGTERM sent by terminate() has not taken effect yet
    pc,             \* parent thread: "idle", "get" (blocked), "join" (blocked),
                    \* "join_error" (at line 223), "join_result" (at line
                    \* 225) or "join_raise" (at line 228)
    joinLeft,       \* parent in join: ticks to the deadline, or NoTimeout
    reaped,         \* parent in join: the child was dead when the wait ended
    scope,          \* the with statement: "none", "in", "exiting", "out"
    blockExc,       \* the exception the with block raised, or None
    lastCall,       \* the parent's last completed call and what it raised
    sent,           \* history: values the parent passed to send()/go()
    got,            \* history: values get() returned
    yielded,        \* history: values the child put on child_to_parent
    received,       \* history: values the child took from parent_to_child
    inProtocol,     \* history: so far each get() followed the previous
                    \* send and each send()/go() followed its get()
    enabled,        \* Toggle: self.enabled
    previous,       \* Toggle: self._previous
    entered,        \* Toggle: the with-blocks that are open, as the status
                    \* the toggle had when each was entered
    toggleCall,     \* Toggle: the last completed call
    init_lock,      \* Server: who holds self.init_lock ("free": nobody)
    socket,         \* Server: self.socket: "unset" (no such attribute),
                    \* "created", "bound", "open" (listening) or "closed"
    shutdown_request, \* Server: BaseServer's __shutdown_request
    is_shut_down,   \* Server: BaseServer's __is_shut_down event
    mainpc,         \* Server: where the thread running the with statement is
    threadpc,       \* Server: where self.thread is
    pending,        \* Server: connections waiting to be accepted
    served,         \* Server: connections the handler has answered
    serverCall      \* Server: the last completed call of the main thread

vars == << target, timeout, terminate, reraise, result, exception,
           error_queue, result_queue, error_buffer, result_buffer,
           child_to_parent, parent_to_child,
           child_to_parent_buffer, parent_to_child_buffer,
           started, cstate, outcome, genpos, genval, to_parent, sigterm,
           pc, joinLeft, reaped, scope, blockExc, lastCall,
           sent, got, yielded, received, inProtocol,
           enabled, previous, entered, toggleCall,
           init_lock, socket, shutdown_request, is_shut_down, mainpc,
           threadpc, pending, served, serverCall >>

process == << target, timeout, terminate, reraise, result, exception,
              error_queue, result_queue, error_buffer, result_buffer,
              child_to_parent, parent_to_child,
              child_to_parent_buffer, parent_to_child_buffer,
              started, cstate, outcome, genpos, genval, to_parent, sigterm,
              pc, joinLeft, reaped, scope, blockExc, lastCall,
              sent, got, yielded, received, inProtocol >>
toggle == << enabled, previous, entered, toggleCall >>
server == << init_lock, socket, shutdown_request, is_shut_down, mainpc,
            threadpc, pending, served, serverCall >>

config == << target, timeout, terminate, reraise >>
attrs == << result, exception >>
oneshot == << error_queue, result_queue, error_buffer, result_buffer >>
channels == << child_to_parent, parent_to_child,
              child_to_parent_buffer, parent_to_child_buffer >>
child == << cstate, outcome, genpos, genval, to_parent >>
history == << sent, got, yielded, received, inProtocol >>

\* --------------------------------------------------------------- helpers
\* Process.__init__: Conversation(target) raises TypeError unless target is
\* a generator function, and then self.conversation is None.
HasConversation == target.gen

\* multiprocessing.Process.is_alive(): started and not yet terminated.
is_alive == started /\ cstate \notin {"exited", "killed"}

\* The record of a completed call: what it raised (None: it returned) and,
\* for a join() or __exit__ that waited, whether the child was dead when it
\* completed, whether the wait had a deadline, and whether the child was
\* dead already when the wait ended (before the queues were looked at).
Call(op, exc) ==
    [op |-> op, raised |-> exc, dead |-> FALSE, timed |-> FALSE,
     reaped |-> FALSE]
JoinCalled(op, exc, timed) ==
    [op |-> op, raised |-> exc, dead |-> ~is_alive, timed |-> timed,
     reaped |-> reaped]

\* The record of a completed call on the toggle; for __exit__, the status
\* the toggle had before the block that was left and what the block raised.
ToggleCalled(op, before, exc) == [op |-> op, before |-> before, raised |-> exc]

\* Toggle.__init__
ToggleConstructed ==
    /\ enabled = False
    /\ previous = None
    /\ entered = <<>>
    /\ toggleCall = ToggleCalled("init", None, None)

\* Server.__init__: the lock is created; the socket is not (the attribute
\* exists only once TCPServer.__init__ has run). No thread yet.
ServerConstructed ==
    /\ init_lock = "free"
    /\ socket = "unset"
    /\ shutdown_request = FALSE
    /\ is_shut_down = FALSE
    /\ mainpc = "new"
    /\ threadpc = "none"
    /\ pending = 0
    /\ served = 0
    /\ serverCall = [op |-> "init", raised |-> None]

\* Process.__init__; the toggle and the server are constructed and not
\* used.
Init ==
    /\ ToggleConstructed
    /\ ServerConstructed
    /\ target \in Targets
    /\ timeout \in Timeouts
    /\ terminate \in BOOLEAN
    /\ reraise \in BOOLEAN
    /\ result = None
    /\ exception = None
    /\ error_queue = <<>>
    /\ result_queue = <<>>
    /\ error_buffer = <<>>
    /\ result_buffer = <<>>
    /\ child_to_parent = <<>>
    /\ parent_to_child = <<>>
    /\ child_to_parent_buffer = <<>>
    /\ parent_to_child_buffer = <<>>
    /\ started = FALSE
    /\ cstate = "new"
    /\ outcome = <<>>
    /\ genpos = 0
    /\ genval = Arg
    /\ to_parent = None
    /\ sigterm = FALSE
    /\ pc = "idle"
    /\ joinLeft = NoTimeout
    /\ reaped = FALSE
    /\ scope = "none"
    /\ blockExc = None
    /\ lastCall = Call("init", None)
    /\ sent = <<>>
    /\ got = <<>>
    /\ yielded = <<>>
    /\ received = <<>>
    /\ inProtocol = TRUE

\* ------------------------------------------------------------ the child
\* What the generator yields at yield point i when its local `value` is v.
YieldAt(i, v) == IF target.body[i] = "echo" THEN v ELSE target.body[i]

\* Faulty variant: converse's try catches every exception, not only
\* StopIteration.
ConverseEndCatchesAll(inTry) ==
    IF inTry THEN <<"ok", None>>
    ELSE <<"err", IF target.end = "stop" THEN "StopIteration" ELSE target.val>>


\* How Conversation.start ends when the generator finishes. StopIteration
\* raised inside converse()'s try is caught there (break, start returns
\* None); raised by the first generator.next(), outside the try, it reaches
\* start()'s `except Exception`, generator.throw(e) raises it again and it
\* escapes to run(). Any other exception escapes the same way.
ConverseEnd(inTry) ==
    IF target.end = "stop"
    THEN IF inTry THEN <<"ok", None>> ELSE <<"err", "StopIteration">>
    ELSE <<"err", target.val>>

\* Faulty variant: run() puts what the target raised on result_queue too.
RunResultAlways(o) == o[2]

\* Faulty variants: run() forgets to forward the value, or the exception.
RunResultDropped(o) == None
RunErrorDropped(o) == None

\* run(): what is put on result_queue and on error_queue for an outcome.
RunResult(o) == IF o[1] = "ok" THEN o[2] ELSE None
RunError(o) == IF o[1] = "ok" THEN None ELSE o[2]

\* run() calls a plain target: it returns or raises (an unbounded loop
\* never leaves this state).
ChildCall ==
    /\ cstate = "run"
    /\ ~target.gen
    /\ target.end # "loop"
    /\ outcome' = IF target.end = "return" THEN <<"ok", target.val>>
                  ELSE <<"err", target.val>>
    /\ cstate' = "put_result"
    /\ UNCHANGED << toggle, server, config, attrs, oneshot, channels, started, genpos, genval,
                    to_parent, sigterm, pc, joinLeft, reaped, scope, blockExc,
                    lastCall, history >>

\* Conversation.start / converse line 406: to_parent = generator.next()
ChildGenNext ==
    /\ cstate = "run"
    /\ target.gen
    /\ IF Len(target.body) >= 1
       THEN /\ to_parent' = YieldAt(1, genval)
            /\ genpos' = 1
            /\ cstate' = "yield"
            /\ UNCHANGED outcome
       ELSE /\ outcome' = ConverseEnd(FALSE)
            /\ cstate' = "put_result"
            /\ UNCHANGED << to_parent, genpos >>
    /\ UNCHANGED << toggle, server, config, attrs, oneshot, channels, started, genval,
                    sigterm, pc, joinLeft, reaped, scope, blockExc, lastCall,
                    history >>

\* Faulty variant: after its last yield the generator is not resumed: converse
\* returns without reading the parent's final send.
ChildPutYieldNoFinalRead ==
    /\ cstate = "yield"
    /\ child_to_parent_buffer' = Append(child_to_parent_buffer, to_parent)
    /\ yielded' = Append(yielded, to_parent)
    /\ IF genpos < Len(target.body)
       THEN cstate' = "wait" /\ UNCHANGED outcome
       ELSE cstate' = "put_result" /\ outcome' = <<"ok", None>>
    /\ UNCHANGED << toggle, server, config, attrs, oneshot, child_to_parent, parent_to_child,
                    parent_to_child_buffer, started,
                    genpos, genval, to_parent, sigterm, pc, joinLeft, reaped, scope,
                    blockExc, lastCall, sent, got, received, inProtocol >>

\* Faulty variant: converse resumes the generator without waiting for the
\* parent's value while yield points are left.
ChildPutYieldEager ==
    /\ cstate = "yield"
    /\ child_to_parent_buffer' = Append(child_to_parent_buffer, to_parent)
    /\ yielded' = Append(yielded, to_parent)
    /\ IF genpos < Len(target.body)
       THEN /\ genpos' = genpos + 1
            /\ to_parent' = YieldAt(genpos + 1, genval)
            /\ cstate' = "yield"
       ELSE /\ cstate' = "wait"
            /\ UNCHANGED << genpos, to_parent >>
    /\ UNCHANGED << toggle, server, config, attrs, oneshot, child_to_parent, parent_to_child,
                    parent_to_child_buffer,
                    started, outcome, genval, sigterm, pc, joinLeft, reaped, scope,
                    blockExc, lastCall, sent, got, received, inProtocol >>


\* converse line 409: self.child_to_parent.put(to_parent)
ChildPutYield ==
    /\ cstate = "yield"
    /\ child_to_parent_buffer' = Append(child_to_parent_buffer, to_parent)
    /\ yielded' = Append(yielded, to_parent)
    /\ cstate' = "wait"
    /\ UNCHANGED << toggle, server, config, attrs, oneshot, child_to_parent, parent_to_child,
                    parent_to_child_buffer, started, outcome,
                    genpos, genval, to_parent, sigterm, pc, joinLeft, reaped, scope,
                    blockExc, lastCall, sent, got, received, inProtocol >>

\* Faulty variant: converse catches StopIteration without leaving its loop: it puts
\* the stale to_parent again and waits for one more value.
ChildResumeNoBreak ==
    /\ cstate = "wait"
    /\ parent_to_child # <<>>
    /\ LET from_parent == Head(parent_to_child) IN
        /\ parent_to_child' = Tail(parent_to_child)
        /\ received' = Append(received, from_parent)
        /\ genval' = from_parent
        /\ IF genpos < Len(target.body)
           THEN /\ genpos' = genpos + 1
                /\ to_parent' = YieldAt(genpos + 1, from_parent)
                /\ cstate' = "yield"
                /\ UNCHANGED outcome
           ELSE IF target.end = "stop"
           THEN /\ cstate' = "yield"
                /\ UNCHANGED << outcome, genpos, to_parent >>
           ELSE /\ outcome' = ConverseEnd(TRUE)
                /\ cstate' = "put_result"
                /\ UNCHANGED << genpos, to_parent >>
    /\ UNCHANGED << toggle, server, config, attrs, oneshot, child_to_parent,
                    child_to_parent_buffer, parent_to_child_buffer, started, sigterm,
                    pc, joinLeft, reaped, scope, blockExc, lastCall, sent, got,
                    yielded, inProtocol >>

\* Faulty variant: the child's read does not block: with nothing to read
\* the generator is resumed with None.
ChildResumeNoWait ==
    /\ cstate = "wait"
    /\ LET from_parent == IF parent_to_child # <<>>
                          THEN Head(parent_to_child) ELSE None IN
        /\ parent_to_child' = IF parent_to_child # <<>>
                              THEN Tail(parent_to_child) ELSE parent_to_child
        /\ received' = IF parent_to_child # <<>>
                       THEN Append(received, from_parent) ELSE received
        /\ genval' = from_parent
        /\ IF genpos < Len(target.body)
           THEN /\ genpos' = genpos + 1
                /\ to_parent' = YieldAt(genpos + 1, from_parent)
                /\ cstate' = "yield"
                /\ UNCHANGED outcome
           ELSE /\ outcome' = ConverseEnd(TRUE)
                /\ cstate' = "put_result"
                /\ UNCHANGED << genpos, to_parent >>
    /\ UNCHANGED << toggle, server, config, attrs, oneshot, child_to_parent,
                    child_to_parent_buffer, parent_to_child_buffer,
                    started, sigterm, pc, joinLeft, reaped, scope, blockExc, lastCall,
                    sent, got, yielded, inProtocol >>


\* converse lines 410-413: from_parent = self.parent_to_child.get();
\* to_parent = generator.send(from_parent)
ChildResume ==
    /\ cstate = "wait"
    /\ parent_to_child # <<>>
    /\ LET from_parent == Head(parent_to_child) IN
        /\ parent_to_child' = Tail(parent_to_child)
        /\ received' = Append(received, from_parent)
        /\ genval' = from_parent
        /\ IF genpos < Len(target.body)
           THEN /\ genpos' = genpos + 1
                /\ to_parent' = YieldAt(genpos + 1, from_parent)
                /\ cstate' = "yield"
                /\ UNCHANGED outcome
           ELSE /\ outcome' = ConverseEnd(TRUE)
                /\ cstate' = "put_result"
                /\ UNCHANGED << genpos, to_parent >>
    /\ UNCHANGED << toggle, server, config, attrs, oneshot, child_to_parent,
                    child_to_parent_buffer, parent_to_child_buffer, started, sigterm,
                    pc, joinLeft, reaped, scope, blockExc, lastCall, sent, got,
                    yielded, inProtocol >>

\* run() lines 186 / 189: self.result_queue.put(...). put() appends to the
\* queue's buffer and returns; the queue's feeder thread writes the
\* buffer to the pipe later.
ChildPutResult ==
    /\ cstate = "put_result"
    /\ result_buffer' = Append(result_buffer, RunResult(outcome))
    /\ cstate' = "put_error"
    /\ UNCHANGED << toggle, server, config, attrs, error_queue, result_queue,
                    error_buffer, channels, started, outcome,
                    genpos, genval, to_parent, sigterm, pc, joinLeft, reaped, scope,
                    blockExc, lastCall, history >>

\* Faulty variant: run() puts on error_queue only when there is an error.
ChildPutErrorOnlyErrors ==
    /\ cstate = "put_error"
    /\ error_buffer' = IF outcome[1] = "ok" THEN error_buffer
                       ELSE Append(error_buffer, outcome[2])
    /\ cstate' = "exit"
    /\ UNCHANGED << toggle, server, config, attrs, error_queue, result_queue,
                    result_buffer, channels,
                    started, outcome, genpos, genval, to_parent, sigterm, pc,
                    joinLeft, reaped, scope, blockExc, lastCall, history >>


\* run() lines 187 / 190: self.error_queue.put(...), to the buffer of
\* error_queue.
ChildPutError ==
    /\ cstate = "put_error"
    /\ error_buffer' = Append(error_buffer, RunError(outcome))
    /\ cstate' = "exit"
    /\ UNCHANGED << toggle, server, config, attrs, error_queue, result_queue,
                    result_buffer, channels, started, outcome,
                    genpos, genval, to_parent, sigterm, pc, joinLeft, reaped, scope,
                    blockExc, lastCall, history >>

\* multiprocessing.Queue: the feeder thread of result_queue, in the child,
\* writes the buffered value to the pipe, where the parent's empty() and
\* get() see it. Each queue has a feeder thread and a pipe of its own.
\* The write of a large value fills the pipe and blocks: the feeder
\* thread is stuck in it, and writes nothing more, until the parent has
\* read the value.
FeedResult ==
    /\ is_alive
    /\ result_buffer # <<>>
    /\ ~Full(result_queue)
    /\ result_queue' = Append(result_queue, Head(result_buffer))
    /\ result_buffer' = Tail(result_buffer)
    /\ UNCHANGED << toggle, server, config, attrs, error_queue, error_buffer,
                    channels, started, child, sigterm, pc, joinLeft, reaped,
                    scope, blockExc, lastCall, history >>

\* The feeder thread of error_queue does the same.
FeedError ==
    /\ is_alive
    /\ error_buffer # <<>>
    /\ ~Full(error_queue)
    /\ error_queue' = Append(error_queue, Head(error_buffer))
    /\ error_buffer' = Tail(error_buffer)
    /\ UNCHANGED << toggle, server, config, attrs, result_queue, result_buffer,
                    channels, started, child, sigterm, pc, joinLeft, reaped,
                    scope, blockExc, lastCall, history >>

\* The feeder thread of conversation.child_to_parent, in the child, does
\* the same: until it has written the value put at converse line 409 the
\* parent's get() finds nothing to read, and while the pipe is full with
\* a large value the parent has not taken it writes nothing more.
FeedChildToParent ==
    /\ is_alive
    /\ child_to_parent_buffer # <<>>
    /\ ~Full(child_to_parent)
    /\ child_to_parent' = Append(child_to_parent, Head(child_to_parent_buffer))
    /\ child_to_parent_buffer' = Tail(child_to_parent_buffer)
    /\ UNCHANGED << toggle, server, config, attrs, oneshot, parent_to_child,
                    parent_to_child_buffer, started, child, sigterm, pc,
                    joinLeft, reaped, scope, blockExc, lastCall, history >>

\* Faulty variant: the child exits without joining its feeder threads.
ChildExitNoFlush ==
    /\ cstate = "exit"
    /\ cstate' = "exited"
    /\ sigterm' = FALSE
    /\ UNCHANGED << toggle, server, config, attrs, oneshot, channels, started, outcome,
                    genpos, genval, to_parent, pc, joinLeft, reaped, scope, blockExc,
                    lastCall, history >>

\* Faulty variant: the attributes are filled in as soon as the child ends.
ChildExitFillsAttrs ==
    /\ cstate = "exit"
    /\ error_buffer = <<>> /\ result_buffer = <<>>
    /\ child_to_parent_buffer = <<>>
    /\ ~Full(error_queue) /\ ~Full(result_queue) /\ ~Full(child_to_parent)
    /\ cstate' = "exited"
    /\ sigterm' = FALSE
    /\ result' = Head(result_queue)
    /\ exception' = Head(error_queue)
    /\ UNCHANGED << toggle, server, config, oneshot, channels, started, outcome,
                    genpos, genval, to_parent, pc, joinLeft, reaped, scope, blockExc,
                    lastCall, history >>

\* run() has returned: the child process exits, once the feeder threads
\* have flushed the buffers (a process that did not create the queue joins
\* its feeder threads at exit): every value was written to its pipe, and
\* no feeder thread is left blocked in the write of a large value.
ChildExit ==
    /\ cstate = "exit"
    /\ error_buffer = <<>> /\ result_buffer = <<>>
    /\ child_to_parent_buffer = <<>>
    /\ ~Full(error_queue) /\ ~Full(result_queue) /\ ~Full(child_to_parent)
    /\ cstate' = "exited"
    /\ sigterm' = FALSE
    /\ UNCHANGED << toggle, server, config, attrs, oneshot, channels, started, outcome,
                    genpos, genval, to_parent, pc, joinLeft, reaped, scope, blockExc,
                    lastCall, history >>

\* The SIGTERM sent by terminate() takes effect: the child dies where it
\* is and its memory goes with it: its local variables, and what its
\* feeder threads had not written to the pipes yet, which is never
\* written. Of a large value whose write was in progress the pipe keeps
\* the beginning.
ChildDie ==
    /\ sigterm
    /\ is_alive
    /\ cstate' = "killed"
    /\ sigterm' = FALSE
    /\ outcome' = <<>>
    /\ genpos' = 0
    /\ genval' = Arg
    /\ to_parent' = None
    /\ error_buffer' = <<>>
    /\ result_buffer' = <<>>
    /\ child_to_parent_buffer' = <<>>
    /\ error_queue' = Cut(error_queue)
    /\ result_queue' = Cut(result_queue)
    /\ child_to_parent' = Cut(child_to_parent)
    /\ UNCHANGED << toggle, server, config, attrs, parent_to_child,
                    parent_to_child_buffer, started, pc, joinLeft, reaped,
                    scope, blockExc, lastCall, history >>

ChildStep ==
    \/ ChildCall
    \/ ChildGenNext
    \/ ChildPutYield
    \/ ChildResume
    \/ ChildPutResult
    \/ ChildPutError
    \/ FeedResult
    \/ FeedError
    \/ FeedChildToParent
    \/ ChildExit

\* ----------------------------------------------------------- the parent
\* Faulty variant: start() forks whether or not a child was forked before.
StartForksAgain ==
    /\ pc = "idle"
    /\ started' = TRUE
    /\ cstate' = "run"
    /\ lastCall' = Call("start", None)
    /\ UNCHANGED << toggle, server, config, attrs, oneshot, channels, outcome, genpos, genval,
                    to_parent, sigterm, pc, joinLeft, reaped, scope, blockExc,
                    history >>


\* multiprocessing.Process.start(): `assert self._popen is None`, then fork.
Start ==
    /\ pc = "idle"
    /\ IF started
       THEN /\ lastCall' = Call("start", "AssertionError")
            /\ UNCHANGED << started, cstate >>
       ELSE /\ started' = TRUE
            /\ cstate' = "run"
            /\ lastCall' = Call("start", None)
    /\ UNCHANGED << toggle, server, config, attrs, oneshot, channels, outcome, genpos, genval,
                    to_parent, sigterm, pc, joinLeft, reaped, scope, blockExc,
                    history >>

\* is_alive() (multiprocessing.Process): polls the child and reports;
\* False on a handle never started. It changes nothing on the handle.
IsAlive ==
    /\ pc = "idle"
    /\ lastCall' = JoinCalled("is_alive", None, FALSE)
    /\ UNCHANGED << toggle, server, config, attrs, oneshot, channels, started, child, sigterm,
                    pc, joinLeft, reaped, scope, blockExc, history >>

\* __enter__: self.start(); return self
Enter ==
    /\ pc = "idle"
    /\ scope \in {"none", "out"}
    /\ IF started
       THEN /\ lastCall' = Call("enter", "AssertionError")
            /\ UNCHANGED << started, cstate, scope >>
       ELSE /\ started' = TRUE
            /\ cstate' = "run"
            /\ scope' = "in"
            /\ lastCall' = Call("enter", None)
    /\ UNCHANGED << toggle, server, config, attrs, oneshot, channels, outcome, genpos, genval,
                    to_parent, sigterm, pc, joinLeft, reaped, blockExc, history >>

\* The exception get(), send() and go() raise when self.conversation is
\* None: ValueError('{0} is not a generator function ...'.format(
\* self.target.__name__)); evaluating the message needs target.__name__.
NotGeneratorError == IF target.named THEN "ValueError" ELSE "AttributeError"

\* get(), up to the blocking child_to_parent.get()
GetCall ==
    /\ pc = "idle"
    /\ Len(got) < MaxGets
    /\ IF ~HasConversation
       THEN /\ lastCall' = Call("get", NotGeneratorError)
            /\ UNCHANGED pc
       ELSE /\ pc' = "get"
            /\ UNCHANGED lastCall
    /\ UNCHANGED << toggle, server, config, attrs, oneshot, channels, started, child, sigterm,
                    joinLeft, reaped, scope, blockExc, history >>

\* Faulty variant: the read hands over the newest value instead of the oldest.
get_from_child_newest(q) == << q[Len(q)], SubSeq(q, 1, Len(q) - 1) >>

\* Conversation.get_from_child: the value child_to_parent.get() hands over
\* and what is left in the queue.
get_from_child(q) == << Head(q), Tail(q) >>

\* Faulty variant: the blocking read gives up once the child is gone.
GetReturnDetectsDeath ==
    /\ pc = "get"
    /\ pc' = "idle"
    /\ IF Readable(child_to_parent)
       THEN /\ got' = Append(got, Head(child_to_parent))
            /\ child_to_parent' = Tail(child_to_parent)
            /\ inProtocol' = (inProtocol /\ Len(sent) = Len(got))
            /\ lastCall' = Call("get", None)
       ELSE /\ ~is_alive
            /\ child_to_parent = <<>>
            /\ lastCall' = Call("get", "Empty")
            /\ UNCHANGED << got, child_to_parent, inProtocol >>
    /\ UNCHANGED << toggle, server, config, attrs, oneshot, child_to_parent_buffer, parent_to_child,
                    parent_to_child_buffer, started, child,
                    sigterm, joinLeft, reaped, scope, blockExc, sent, yielded,
                    received >>


\* get() returns: the blocking read found a value (a read that finds the
\* beginning of a value whose writer was killed waits for the rest).
GetReturn ==
    /\ pc = "get"
    /\ Readable(child_to_parent)
    /\ got' = Append(got, get_from_child(child_to_parent)[1])
    /\ child_to_parent' = get_from_child(child_to_parent)[2]
    /\ pc' = "idle"
    /\ inProtocol' = (inProtocol /\ Len(sent) = Len(got))
    /\ lastCall' = Call("get", None)
    /\ UNCHANGED << toggle, server, config, attrs, oneshot, child_to_parent_buffer, parent_to_child,
                    parent_to_child_buffer, started, child,
                    sigterm, joinLeft, reaped, scope, blockExc, sent, yielded,
                    received >>

\* Faulty variant: the value jumps the queue.
send_to_child_front(q, value) == <<value>> \o q

\* Conversation.send_to_child: self.parent_to_child.put(value)
send_to_child(q, value) == Append(q, value)

\* send(value)
Send(value) ==
    /\ pc = "idle"
    /\ Len(sent) < MaxSends
    /\ IF ~HasConversation
       THEN /\ lastCall' = Call("send", NotGeneratorError)
            /\ UNCHANGED << parent_to_child_buffer, sent, inProtocol >>
       ELSE /\ parent_to_child_buffer' =
                    send_to_child(parent_to_child_buffer, value)
            /\ sent' = Append(sent, value)
            /\ inProtocol' = (inProtocol /\ Len(got) = Len(sent) + 1)
            /\ lastCall' = Call("send", None)
    /\ UNCHANGED << toggle, server, config, attrs, oneshot, child_to_parent,
                    child_to_parent_buffer, parent_to_child, started, child,
                    sigterm, pc, joinLeft, reaped, scope, blockExc, got, yielded,
                    received >>

\* Faulty variant: parent_to_child holds one value at most: go() waits
\* until the child has taken the previous one.
GoBounded ==
    /\ parent_to_child = <<>> /\ parent_to_child_buffer = <<>>
    /\ pc = "idle"
    /\ Len(sent) < MaxSends
    /\ IF ~HasConversation
       THEN /\ lastCall' = Call("go", NotGeneratorError)
            /\ UNCHANGED << parent_to_child_buffer, sent, inProtocol >>
       ELSE /\ parent_to_child_buffer' =
                    send_to_child(parent_to_child_buffer, None)
            /\ sent' = Append(sent, None)
            /\ inProtocol' = (inProtocol /\ Len(got) = Len(sent) + 1)
            /\ lastCall' = Call("go", None)
    /\ UNCHANGED << toggle, server, config, attrs, oneshot, child_to_parent,
                    child_to_parent_buffer, parent_to_child, started, child,
                    sigterm, pc, joinLeft, reaped, scope, blockExc, got, yielded,
                    received >>

\* go(): send_to_child(None)
Go ==
    /\ pc = "idle"
    /\ Len(sent) < MaxSends
    /\ IF ~HasConversation
       THEN /\ lastCall' = Call("go", NotGeneratorError)
            /\ UNCHANGED << parent_to_child_buffer, sent, inProtocol >>
       ELSE /\ parent_to_child_buffer' =
                    send_to_child(parent_to_child_buffer, None)
            /\ sent' = Append(sent, None)
            /\ inProtocol' = (inProtocol /\ Len(got) = Len(sent) + 1)
            /\ lastCall' = Call("go", None)
    /\ UNCHANGED << toggle, server, config, attrs, oneshot, child_to_parent,
                    child_to_parent_buffer, parent_to_child, started, child,
                    sigterm, pc, joinLeft, reaped, scope, blockExc, got, yielded,
                    received >>

\* join(timeout), up to the blocking multiprocessing.Process.join (the
\* caller passes no timeout, or the handle's as __exit__ does):
\* `assert self._popen is not None` fails on a handle never started.
JoinCall(t) ==
    /\ pc = "idle"
    /\ IF ~started
       THEN /\ lastCall' = Call("join", "AssertionError")
            /\ UNCHANGED << pc, joinLeft, reaped >>
       ELSE /\ pc' = "join"
            /\ joinLeft' = t
            /\ UNCHANGED << lastCall, reaped >>
    /\ UNCHANGED << toggle, server, config, attrs, oneshot, channels, started, child, sigterm,
                    scope, blockExc, history >>

\* Faulty variant: __exit__ ignores how the block ended.
ExitKillsOnTerminate(value) == terminate

\* Faulty variant: __exit__ ignores the terminate option.
ExitKillsOnError(value) == value # None

\* __exit__ line 334: the condition under which the child is killed first.
ExitKills(value) == value # None \/ terminate

\* __exit__, up to the blocking join: the block ended normally (value is
\* None) or by raising value; terminate() sends SIGTERM to a live child.
ExitCall(value) ==
    /\ pc = "idle"
    /\ scope = "in"
    /\ blockExc' = value
    /\ sigterm' = IF ExitKills(value) /\ is_alive THEN TRUE ELSE sigterm
    /\ pc' = "join"
    /\ joinLeft' = timeout
    /\ scope' = "exiting"
    /\ UNCHANGED << toggle, server, config, attrs, oneshot, channels, started, child,
                    reaped, lastCall, history >>

\* One tick of the clock passes while join(timeout) polls a live child. A
\* pending SIGTERM takes effect in less than a tick.
Tick ==
    /\ pc = "join"
    /\ joinLeft > 0
    /\ is_alive
    /\ ~sigterm
    /\ joinLeft' = joinLeft - 1
    /\ UNCHANGED << toggle, server, config, attrs, oneshot, channels, started, child, sigterm,
                    pc, reaped, scope, blockExc, lastCall, history >>

\* Faulty variant: a join called without timeout falls back on the timeout
\* the handle was constructed with.
JoinWaitOverHandleTimeout ==
    ~is_alive \/ joinLeft = 0 \/ (joinLeft = NoTimeout /\ timeout # NoTimeout)


\* Faulty variant: join does not wait at all.
JoinWaitSkipped == TRUE

\* Faulty variant: join ignores its timeout.
JoinWaitsForDeath == ~is_alive

\* multiprocessing.Process.join(self, timeout) returns: the child has
\* terminated or the deadline has passed.
JoinWaitOver == ~is_alive \/ joinLeft = 0

\* Faulty variant: an empty queue is read all the same and the failure of
\* the read is recorded.
DrainOrFail(queue, attr) == IF queue # <<>> THEN Head(queue) ELSE "Empty"

\* join lines 223-226: `if not queue.empty(): attr = queue.get()`
Drain(queue, attr) == IF ~empty(queue) THEN Head(queue) ELSE attr
Drained(queue) == IF ~empty(queue) THEN Tail(queue) ELSE queue
\* The get() of these lines returns, or there is nothing to get.
CanDrain(queue) == empty(queue) \/ Readable(queue)

\* Faulty variant: join raises the captured exception whatever reraise says.
JoinRaisesAlways(exc) == exc

\* join lines 228-229: what join raises once self.exception is exc.
JoinRaises(exc) == IF reraise /\ exc # None THEN exc ELSE None

\* Faulty variant: what the block raised wins over what join raised.
ExitRaisesBlockFirst(joinExc) == IF blockExc # None THEN blockExc ELSE joinExc


\* The with statement: an exception raised by __exit__ replaces the one of
\* the block; __exit__ returns None, so the block's exception propagates.
ExitRaises(joinExc) == IF joinExc # None THEN joinExc ELSE blockExc

\* join line 221: multiprocessing.Process.join(self, timeout) returns. What
\* is left of the deadline matters no more, only that there was one.
JoinWaited ==
    /\ pc = "join"
    /\ JoinWaitOver
    /\ pc' = "join_error"
    /\ reaped' = ~is_alive
    /\ joinLeft' = IF joinLeft = NoTimeout THEN NoTimeout ELSE 0
    /\ UNCHANGED << toggle, server, config, attrs, oneshot, channels, started,
                    child, sigterm, scope, blockExc, lastCall, history >>

\* join lines 223-224: error_queue is looked at and, if something is in
\* its pipe, read into self.exception. The child runs meanwhile. (If what
\* is in the pipe is the beginning of a value whose writer was killed, the
\* get() never returns.)
JoinReadError ==
    /\ pc = "join_error"
    /\ CanDrain(error_queue)
    /\ exception' = Drain(error_queue, exception)
    /\ error_queue' = Drained(error_queue)
    /\ pc' = "join_result"
    /\ UNCHANGED << toggle, server, config, result, result_queue,
                    error_buffer, result_buffer, channels, started, child,
                    sigterm, joinLeft, reaped, scope, blockExc, lastCall,
                    history >>

\* join lines 225-226: result_queue is looked at and read the same way.
\* The read empties the pipe: the feeder thread of a value larger than
\* the pipe finishes its write while get() reads, and the child can exit
\* before join() returns.
JoinReadResult ==
    /\ pc = "join_result"
    /\ CanDrain(result_queue)
    /\ result' = Drain(result_queue, result)
    /\ result_queue' = Drained(result_queue)
    /\ pc' = "join_raise"
    /\ UNCHANGED << toggle, server, config, exception, error_queue,
                    error_buffer, result_buffer, channels, started, child,
                    sigterm, joinLeft, reaped, scope, blockExc, lastCall,
                    history >>

\* join lines 228-229: join() returns or raises (the explicit call, or the
\* one __exit__ makes); what is_alive() says is what it says then.
JoinReturn ==
    /\ pc = "join_raise"
    /\ pc' = "idle"
    /\ joinLeft' = NoTimeout
    /\ reaped' = FALSE
    /\ IF scope = "exiting"
       THEN /\ scope' = "out"
            /\ lastCall' = JoinCalled("exit", ExitRaises(JoinRaises(exception)),
                                       joinLeft # NoTimeout)
       ELSE /\ lastCall' = JoinCalled("join", JoinRaises(exception),
                                       joinLeft # NoTimeout)
            /\ UNCHANGED scope
    /\ UNCHANGED << toggle, server, config, attrs, oneshot, channels, started,
                    child, sigterm, blockExc, history >>

\* The steps of join() after the call.
JoinStep ==
    \/ JoinWaited
    \/ JoinReadError
    \/ JoinReadResult
    \/ JoinReturn

\* The feeder thread of conversation.parent_to_child, in the parent,
\* writes to the pipe what send_to_child put in the buffer (process.py
\* line 403); the child's parent_to_child.get() reads the pipe. (The
\* values the parent sends are small: this pipe is never full.)
FeedParentToChild ==
    /\ parent_to_child_buffer # <<>>
    /\ ~Full(parent_to_child)
    /\ parent_to_child' = Append(parent_to_child, Head(parent_to_child_buffer))
    /\ parent_to_child_buffer' = Tail(parent_to_child_buffer)
    /\ UNCHANGED << toggle, server, config, attrs, oneshot, child_to_parent,
                    child_to_parent_buffer, started, child, sigterm, pc,
                    joinLeft, reaped, scope, blockExc, lastCall, history >>

ParentStep ==
    \/ Start
    \/ IsAlive
    \/ Enter
    \/ GetCall
    \/ GetReturn
    \/ \E v \in SendVals : Send(v)
    \/ Go
    \/ \E t \in {NoTimeout, timeout} : JoinCall(t)
    \/ \E x \in {None, "BlockError"} : ExitCall(x)
    \/ Tick
    \/ JoinStep

Next == ParentStep \/ FeedParentToChild \/ ChildStep \/ ChildDie

Spec == Init /\ [][Next]_vars

\* The child process is scheduled by the operating system: a step it can
\* take is eventually taken (its feeder threads included), a pending
\* SIGTERM eventually takes effect, and a join whose wait is over goes on
\* to read the queues and returns, as does a get() that finds a value to
\* read. The parent's feeder thread runs too.
\* The clock advances.
\* Whether the child terminates by itself does not depend on reraise
\* (which only decides what join raises afterwards), on terminate (a kill
\* is explored through a block that raises) or on a zero timeout (a wait
\* that is over at once): the fair behaviours are explored with reraise
\* and terminate off and a timeout of one tick or none. The targets
\* explored are those that come to an end without raising, which the
\* claims about termination are about.
LiveInit ==
    /\ Init
    /\ ~reraise /\ ~terminate /\ timeout # 0
    /\ target.end \in {"stop", "return"}

FairSpec ==
    /\ LiveInit /\ [][Next]_vars
    /\ WF_vars(ChildStep) /\ WF_vars(ChildDie)
    /\ WF_vars(JoinStep) /\ WF_vars(GetReturn)
    /\ WF_vars(FeedParentToChild) /\ WF_vars(Tick)

\* ----------------------------------------------------------- the toggle
\* Python's truth test, as in `if not self._previous`.
Falsy(v) == v \in {None, False}

\* enable(): self.enabled = True
enable ==
    /\ enabled' = True
    /\ toggleCall' = ToggleCalled("enable", None, None)
    /\ UNCHANGED << previous, entered, process, server >>

\* disable(): self.enabled = False
disable ==
    /\ enabled' = False
    /\ toggleCall' = ToggleCalled("disable", None, None)
    /\ UNCHANGED << previous, entered, process, server >>

\* __enter__: self._previous = self.enabled; self.enable(). A with-block
\* on the toggle opens (inside the blocks already open).
ToggleEnter ==
    /\ Len(entered) < MaxDepth
    /\ previous' = enabled
    /\ enabled' = True
    /\ entered' = Append(entered, enabled)
    /\ toggleCall' = ToggleCalled("enter", None, None)
    /\ UNCHANGED << process, server >>

\* __exit__(*args): `if not self._previous: self.disable()`. The innermost
\* open block ends, normally (value is None) or by raising value; __exit__
\* returns None, so what the block raised propagates.
ToggleExit(value) ==
    /\ entered # <<>>
    /\ enabled' = IF Falsy(previous) THEN False ELSE enabled
    /\ entered' = SubSeq(entered, 1, Len(entered) - 1)
    /\ toggleCall' = ToggleCalled("exit", entered[Len(entered)], value)
    /\ UNCHANGED << previous, process, server >>

ToggleNext ==
    \/ enable
    \/ disable
    \/ ToggleEnter
    \/ \E x \in {None, "BlockError"} : ToggleExit(x)

\* The process handle, constructed with the defaults, is left alone.
ProcessDefaults ==
    /\ target = NoTarget
    /\ timeout = DefaultTimeout
    /\ ~terminate
    /\ ~reraise

ToggleInit == Init /\ ProcessDefaults

ToggleSpec == ToggleInit /\ [][ToggleNext]_vars

\* ----------------------------------------------------------- the server
\* Server._is_initialized: hasattr(self, 'socket')
is_initialized == socket # "unset"

\* The record of a completed call of the main thread on the server.
ServerCalled(op, exc) == [op |-> op, raised |-> exc]

\* _lazy_init lines 342-344: unless the server is initialized,
\* TCPServer.__init__ begins: after BaseServer.__init__ it creates the
\* socket (self.socket = socket.socket(...)). From here on
\* _is_initialized() is true, also for server_close() and shutdown(),
\* which take no lock.
lazy_init(s) == IF s = "unset" THEN "created" ELSE s

\* The socket of the operating system accepts connections: it was bound
\* and activated and is not closed. A server_close() that falls while the
\* serving thread is inside accept() or select() closes the Python socket
\* object only: the call in progress keeps the socket of the operating
\* system, which goes on listening until the call returns.
listening ==
    \/ socket = "open"
    \/ socket = "closed" /\ threadpc \in {"selecting", "accepting"}

\* __enter__ lines 323-325: the serving thread is created and started; it
\* will run self.serve_forever. (One serving thread is followed: the with
\* statement is entered while no other serving thread is running.)
ServerEnter ==
    /\ mainpc = "new"
    /\ threadpc \in {"none", "done"}
    /\ mainpc' = "acquire"
    /\ threadpc' = "lazy_init"
    /\ UNCHANGED << init_lock, socket, shutdown_request, is_shut_down,
                    pending, served, serverCall, process, toggle >>

\* __enter__ line 327: self.init_lock.acquire()
EnterAcquire ==
    /\ mainpc = "acquire"
    /\ init_lock = "free"
    /\ init_lock' = "main"
    /\ mainpc' = "release"
    /\ UNCHANGED << socket, shutdown_request, is_shut_down, threadpc,
                    pending, served, serverCall, process, toggle >>

\* __enter__ line 328: self.init_lock.release()
EnterRelease ==
    /\ mainpc = "release"
    /\ init_lock' = "free"
    /\ mainpc' = "sleep"
    /\ UNCHANGED << socket, shutdown_request, is_shut_down, threadpc,
                    pending, served, serverCall, process, toggle >>

\* __enter__ lines 329-331: time.sleep(self.wait_for_release) is over and
\* __enter__ returns: the body of the with block runs.
EnterReturn ==
    /\ mainpc = "sleep"
    /\ mainpc' = "block"
    /\ serverCall' = ServerCalled("enter", None)
    /\ UNCHANGED << init_lock, socket, shutdown_request, is_shut_down,
                    threadpc, pending, served, process, toggle >>

\* threading.Thread(target=server.serve_forever).start(), as the tests of
\* wait_server_up do without a with statement: the caller goes on.
ThreadStart ==
    /\ mainpc = "new"
    /\ threadpc \in {"none", "done"}
    /\ threadpc' = "lazy_init"
    /\ serverCall' = ServerCalled("thread.start", None)
    /\ UNCHANGED << init_lock, socket, shutdown_request, is_shut_down,
                    mainpc, pending, served, process, toggle >>

\* handle_request() line 305, called by the main thread outside a with
\* statement: _lazy_init's `with self.init_lock:` takes the lock, waiting
\* while the serving thread holds it.
HandleRequestCall ==
    /\ mainpc = "new"
    /\ init_lock = "free"
    /\ init_lock' = "main"
    /\ mainpc' = "handle_locked"
    /\ UNCHANGED << socket, shutdown_request, is_shut_down, threadpc,
                    pending, served, serverCall, process, toggle >>

\* _lazy_init lines 342-344, in the main thread: the socket is created
\* unless the server is initialized.
HandleLazyInit ==
    /\ mainpc = "handle_locked"
    /\ socket' = lazy_init(socket)
    /\ mainpc' = IF is_initialized THEN "handle_unlock" ELSE "handle_bind"
    /\ UNCHANGED << init_lock, shutdown_request, is_shut_down, threadpc,
                    pending, served, serverCall, process, toggle >>

\* TCPServer.__init__ in the main thread: self.server_bind(). (Only the
\* main thread closes the socket, and it is busy here.)
HandleLazyBind ==
    /\ mainpc = "handle_bind"
    /\ socket' = "bound"
    /\ mainpc' = "handle_activate"
    /\ UNCHANGED << init_lock, shutdown_request, is_shut_down, threadpc,
                    pending, served, serverCall, process, toggle >>

\* TCPServer.__init__ in the main thread: self.server_activate() (listen).
HandleLazyActivate ==
    /\ mainpc = "handle_activate"
    /\ socket' = "open"
    /\ mainpc' = "handle_unlock"
    /\ UNCHANGED << init_lock, shutdown_request, is_shut_down, threadpc,
                    pending, served, serverCall, process, toggle >>

\* _lazy_init: the with statement on the lock ends; handle_request goes on
\* to TCPServer.handle_request (line 307).
HandleLazyRelease ==
    /\ mainpc = "handle_unlock"
    /\ init_lock' = "free"
    /\ mainpc' = "handle"
    /\ UNCHANGED << socket, shutdown_request, is_shut_down, threadpc,
                    pending, served, serverCall, process, toggle >>

\* TCPServer.handle_request on a socket that was closed: reading the
\* socket's timeout raises socket.error, which the caller gets.
HandleRequestFails ==
    /\ mainpc = "handle"
    /\ socket = "closed"
    /\ mainpc' = "new"
    /\ serverCall' = ServerCalled("handle_request", "error")
    /\ UNCHANGED << init_lock, socket, shutdown_request, is_shut_down,
                    threadpc, pending, served, process, toggle >>

\* TCPServer.handle_request: select(), without a timeout, reports a
\* waiting connection.
HandleSelect ==
    /\ mainpc = "handle"
    /\ socket = "open"
    /\ pending > 0
    /\ mainpc' = "handle_accept"
    /\ UNCHANGED << init_lock, socket, shutdown_request, is_shut_down,
                    threadpc, pending, served, serverCall, process, toggle >>

\* handle_request() returns: the connection is accepted (the accept waits
\* for another one if the serving thread took it first) and
\* ServerHandler.handle sends the message.
HandleRequestReturn ==
    /\ mainpc = "handle_accept"
    /\ pending > 0
    /\ pending' = pending - 1
    /\ served' = served + 1
    /\ mainpc' = "new"
    /\ serverCall' = ServerCalled("handle_request", None)
    /\ UNCHANGED << init_lock, socket, shutdown_request, is_shut_down,
                    threadpc, process, toggle >>

\* server_close() called by the main thread outside a with statement:
\* the socket is closed if there is one.
ServerClose ==
    /\ mainpc = "new"
    /\ socket' = IF is_initialized THEN "closed" ELSE socket
    /\ serverCall' = ServerCalled("server_close", None)
    /\ UNCHANGED << init_lock, shutdown_request, is_shut_down, mainpc,
                    threadpc, pending, served, process, toggle >>

\* shutdown() called by the main thread outside a with statement: nothing
\* on a server that is not initialized; otherwise the request is set and
\* the caller waits for the serving loop to end.
ShutdownCall ==
    /\ mainpc = "new"
    /\ IF is_initialized
       THEN /\ shutdown_request' = TRUE
            /\ mainpc' = "shut"
            /\ UNCHANGED serverCall
       ELSE /\ serverCall' = ServerCalled("shutdown", None)
            /\ UNCHANGED << shutdown_request, mainpc >>
    /\ UNCHANGED << init_lock, socket, is_shut_down, threadpc, pending,
                    served, process, toggle >>

\* shutdown() returns: self.__is_shut_down.wait() is over.
ShutdownReturn ==
    /\ mainpc = "shut"
    /\ is_shut_down
    /\ mainpc' = "new"
    /\ serverCall' = ServerCalled("shutdown", None)
    /\ UNCHANGED << init_lock, socket, shutdown_request, is_shut_down,
                    threadpc, pending, served, process, toggle >>

\* _lazy_init line 341, in the serving thread: `with self.init_lock:`
LazyAcquire ==
    /\ threadpc = "lazy_init"
    /\ init_lock = "free"
    /\ init_lock' = "thread"
    /\ threadpc' = "locked"
    /\ UNCHANGED << socket, shutdown_request, is_shut_down, mainpc,
                    pending, served, serverCall, process, toggle >>

\* _lazy_init lines 342-344, in the serving thread: the socket is created
\* unless the server is initialized. The main thread's server_close() and
\* shutdown() can fall between this step and the next ones.
LazyInit ==
    /\ threadpc = "locked"
    /\ socket' = lazy_init(socket)
    /\ threadpc' = IF is_initialized THEN "unlock" ELSE "bind"
    /\ UNCHANGED << init_lock, shutdown_request, is_shut_down, mainpc,
                    pending, served, serverCall, process, toggle >>

\* TCPServer.__init__ in the serving thread: self.server_bind()
LazyBind ==
    /\ threadpc = "bind"
    /\ socket = "created"
    /\ socket' = "bound"
    /\ threadpc' = "activate"
    /\ UNCHANGED << init_lock, shutdown_request, is_shut_down, mainpc,
                    pending, served, serverCall, process, toggle >>

\* TCPServer.__init__ in the serving thread: self.server_activate()
\* (listen).
LazyActivate ==
    /\ threadpc = "activate"
    /\ socket = "bound"
    /\ socket' = "open"
    /\ threadpc' = "unlock"
    /\ UNCHANGED << init_lock, shutdown_request, is_shut_down, mainpc,
                    pending, served, serverCall, process, toggle >>

\* TCPServer.__init__ in the serving thread, on a socket that
\* server_close() closed since it was created: server_bind() or
\* server_activate() raises socket.error; the except clause calls
\* server_close() and raises again, _lazy_init's with statement releases
\* the lock, and the thread ends with the exception, before
\* TCPServer.serve_forever was entered.
LazyInitFails ==
    /\ threadpc \in {"bind", "activate"}
    /\ socket = "closed"
    /\ init_lock' = "free"
    /\ threadpc' = "done"
    /\ UNCHANGED << socket, shutdown_request, is_shut_down, mainpc,
                    pending, served, serverCall, process, toggle >>

\* _lazy_init: the with statement on the lock ends.
LazyRelease ==
    /\ threadpc = "unlock"
    /\ init_lock' = "free"
    /\ threadpc' = "serve"
    /\ UNCHANGED << socket, shutdown_request, is_shut_down, mainpc,
                    pending, served, serverCall, process, toggle >>

\* TCPServer.serve_forever begins: self.__is_shut_down.clear()
ServeStart ==
    /\ threadpc = "serve"
    /\ is_shut_down' = FALSE
    /\ threadpc' = "loop"
    /\ UNCHANGED << init_lock, socket, shutdown_request, mainpc,
                    pending, served, serverCall, process, toggle >>

\* A client connects to the listening socket.
Connect ==
    /\ listening
    /\ pending + served < MaxRequests
    /\ pending' = pending + 1
    /\ UNCHANGED << init_lock, socket, shutdown_request, is_shut_down,
                    mainpc, threadpc, served, serverCall, process, toggle >>

\* serve_forever's loop: `while not self.__shutdown_request:` finds no
\* request to shut down and goes on to select().
ServeTest ==
    /\ threadpc = "loop"
    /\ ~shutdown_request
    /\ threadpc' = "select"
    /\ UNCHANGED << init_lock, socket, shutdown_request, is_shut_down,
                    mainpc, pending, served, serverCall, process, toggle >>

\* serve_forever's loop: select.select([self], ...) takes the descriptor
\* of the socket (self.fileno()) and waits: from here on the serving
\* thread is inside select().
ServeWait ==
    /\ threadpc = "select"
    /\ socket = "open"
    /\ threadpc' = "selecting"
    /\ UNCHANGED << init_lock, socket, shutdown_request, is_shut_down,
                    mainpc, pending, served, serverCall, process, toggle >>

\* serve_forever's loop: select() reports the server readable: a
\* connection waits. When server_close() closed the socket while the
\* thread was inside select(), what select() returns is unspecified
\* (select(2)): it can report the server readable with no connection
\* waiting.
ServeSelect ==
    /\ threadpc = "selecting"
    /\ pending > 0 \/ socket = "closed"
    /\ threadpc' = "readable"
    /\ UNCHANGED << init_lock, socket, shutdown_request, is_shut_down,
                    mainpc, pending, served, serverCall, process, toggle >>

\* serve_forever's loop: select() reports nothing within poll_interval:
\* no connection waits. After a close during select() it can report
\* nothing although a connection waits.
ServePoll ==
    /\ threadpc = "selecting"
    /\ pending = 0 \/ socket = "closed"
    /\ threadpc' = "timeout"
    /\ UNCHANGED << init_lock, socket, shutdown_request, is_shut_down,
                    mainpc, pending, served, serverCall, process, toggle >>

\* serve_forever's loop, after select(): `if self.__shutdown_request:
\* break` finds no request; a connection that was reported is accepted
\* next, otherwise the loop goes round.
ServeRetest ==
    /\ threadpc \in {"readable", "timeout"}
    /\ ~shutdown_request
    /\ threadpc' = IF threadpc = "readable" THEN "accept" ELSE "loop"
    /\ UNCHANGED << init_lock, socket, shutdown_request, is_shut_down,
                    mainpc, pending, served, serverCall, process, toggle >>

\* serve_forever's loop, after select(): a shutdown was requested while
\* select() waited. The loop is left without accepting; the finally
\* clause resets the request and sets the event, and the thread ends.
ServeBreak ==
    /\ threadpc \in {"readable", "timeout"}
    /\ shutdown_request
    /\ shutdown_request' = FALSE
    /\ is_shut_down' = TRUE
    /\ threadpc' = "done"
    /\ UNCHANGED << init_lock, socket, mainpc, pending, served, serverCall,
                    process, toggle >>

\* serve_forever's loop, after both tests: _handle_request_noblock calls
\* get_request(), which calls self.socket.accept() on the listening
\* socket: from here on the serving thread is inside accept().
ServeAccept ==
    /\ threadpc = "accept"
    /\ socket = "open"
    /\ threadpc' = "accepting"
    /\ UNCHANGED << init_lock, socket, shutdown_request, is_shut_down,
                    mainpc, pending, served, serverCall, process, toggle >>

\* accept() returns a connection (it waits for another one if the main
\* thread took the one select() reported) and ServerHandler.handle sends
\* the message, whatever was requested or closed since accept() was
\* entered.
ServeRequest ==
    /\ threadpc = "accepting"
    /\ pending > 0
    /\ pending' = pending - 1
    /\ served' = served + 1
    /\ threadpc' = "loop"
    /\ UNCHANGED << init_lock, socket, shutdown_request, is_shut_down,
                    mainpc, serverCall, process, toggle >>

\* _handle_request_noblock on a socket that was closed since select() and
\* before accept() was entered: self.socket.accept() raises socket.error,
\* which is swallowed; the loop goes round.
ServeAcceptFails ==
    /\ threadpc = "accept"
    /\ socket = "closed"
    /\ threadpc' = "loop"
    /\ UNCHANGED << init_lock, socket, shutdown_request, is_shut_down,
                    mainpc, pending, served, serverCall, process, toggle >>

\* serve_forever's loop: select.select([self], ...) on a socket that was
\* closed before the call: self.fileno() raises socket.error; the finally
\* clause runs and the thread ends.
ServeFail ==
    /\ threadpc = "select"
    /\ socket = "closed"
    /\ shutdown_request' = FALSE
    /\ is_shut_down' = TRUE
    /\ threadpc' = "done"
    /\ UNCHANGED << init_lock, socket, mainpc, pending, served, serverCall,
                    process, toggle >>

\* serve_forever's loop ends on a shutdown request; its finally clause
\* resets the request and sets the event, and the thread ends.
ServeStop ==
    /\ threadpc = "loop"
    /\ shutdown_request
    /\ shutdown_request' = FALSE
    /\ is_shut_down' = TRUE
    /\ threadpc' = "done"
    /\ UNCHANGED << init_lock, socket, mainpc, pending, served, serverCall,
                    process, toggle >>

\* __exit__ line 334: the block has ended (normally or not: the arguments
\* are ignored); `with self.init_lock:`
ExitAcquire ==
    /\ mainpc = "block"
    /\ init_lock = "free"
    /\ init_lock' = "main"
    /\ mainpc' = "exit"
    /\ UNCHANGED << socket, shutdown_request, is_shut_down, threadpc,
                    pending, served, serverCall, process, toggle >>

\* __exit__ lines 335-336: if the server is initialized, shutdown() asks
\* the loop to stop; if not, __exit__ is over and the lock is released.
ExitShutdown ==
    /\ mainpc = "exit"
    /\ IF is_initialized
       THEN /\ shutdown_request' = TRUE
            /\ mainpc' = "shutdown"
            /\ UNCHANGED << init_lock, serverCall >>
       ELSE /\ init_lock' = "free"
            /\ mainpc' = "out"
            /\ serverCall' = ServerCalled("exit", None)
            /\ UNCHANGED shutdown_request
    /\ UNCHANGED << socket, is_shut_down, threadpc, pending, served,
                    process, toggle >>

\* shutdown() returns (self.__is_shut_down.wait()) and server_close()
\* closes the socket (line 337).
ExitClose ==
    /\ mainpc = "shutdown"
    /\ is_shut_down
    /\ socket' = "closed"
    /\ mainpc' = "join"
    /\ UNCHANGED << init_lock, shutdown_request, is_shut_down, threadpc,
                    pending, served, serverCall, process, toggle >>

\* self.thread.join() returns (line 338) and the lock is released.
ExitJoin ==
    /\ mainpc = "join"
    /\ threadpc = "done"
    /\ init_lock' = "free"
    /\ mainpc' = "out"
    /\ serverCall' = ServerCalled("exit", None)
    /\ UNCHANGED << socket, shutdown_request, is_shut_down, threadpc,
                    pending, served, process, toggle >>

MainStep ==
    \/ ServerEnter
    \/ EnterAcquire
    \/ EnterRelease
    \/ EnterReturn
    \/ ExitAcquire
    \/ ExitShutdown
    \/ ExitClose
    \/ ExitJoin

\* What the main thread does with the server outside a with statement.
DirectStep ==
    \/ ThreadStart
    \/ HandleRequestCall
    \/ HandleLazyInit
    \/ HandleLazyBind
    \/ HandleLazyActivate
    \/ HandleLazyRelease
    \/ HandleRequestFails
    \/ HandleSelect
    \/ HandleRequestReturn
    \/ ServerClose
    \/ ShutdownCall
    \/ ShutdownReturn

ThreadStep ==
    \/ LazyAcquire
    \/ LazyInit
    \/ LazyBind
    \/ LazyActivate
    \/ LazyInitFails
    \/ LazyRelease
    \/ ServeStart
    \/ ServeTest
    \/ ServeWait
    \/ ServeSelect
    \/ ServePoll
    \/ ServeRetest
    \/ ServeBreak
    \/ ServeAccept
    \/ ServeRequest
    \/ ServeAcceptFails
    \/ ServeFail
    \/ ServeStop

ServerNext == MainStep \/ DirectStep \/ ThreadStep \/ Connect

ServerInit == Init /\ ProcessDefaults

ServerSpec == ServerInit /\ [][ServerNext]_vars


\* ---------------------------------------------------------------- claims
\* A join() (explicit, or the one run by __exit__) has returned or raised
\* after the child terminated by itself.
JoinedAfterExit ==
    /\ lastCall.op \in {"join", "exit"}
    /\ lastCall.dead
    /\ cstate = "exited"

\* A join() (explicit, or the one run by __exit__) has returned or raised
\* and its wait had ended because the child had terminated by itself: the
\* child was dead before join looked at the queues.
ReapedAfterExit ==
    /\ lastCall.op \in {"join", "exit"}
    /\ lastCall.reaped
    /\ cstate = "exited"

\* C1 as stated: for a non-generator target that returns v without
\* raising, once join() (explicit or run by scope exit) has returned after
\* the child terminated, result is v and exception is None.
C1_Original ==
    (~target.gen /\ target.end = "return" /\ JoinedAfterExit)
        => (result = target.val /\ exception = None)

\* C1: for a non-generator target that returns v without raising, once a
\* join() (explicit or run by scope exit) whose wait ended because the
\* child had terminated has returned, result is v and exception is None;
\* after a join() whose deadline passed first and which found the child
\* dead only when it returned, result is v or still None, and exception
\* is None.
C1_ResultAfterJoin ==
    (~target.gen /\ target.end = "return")
        => /\ ReapedAfterExit => (result = target.val /\ exception = None)
           /\ JoinedAfterExit => (result \in {target.val, None} /\ exception = None)

C1_Witness ==
    /\ ~target.gen /\ target.end = "return" /\ target.val = "3"
    /\ ReapedAfterExit
    /\ lastCall.op = "exit"
    /\ result = "3"

\* C2: for a target that raises e in the child, after join() has returned
\* following the child's termination (its wait ended because the child
\* had terminated), exception is e and result is None; and with reraise
\* false neither join() nor scope exit raises e in the parent (scope exit
\* lets through only what the block itself raised).
C2_ExceptionAfterJoin ==
    (target.end = "raise" /\ ReapedAfterExit)
        => /\ exception = target.val
           /\ result = None
           /\ ~reraise =>
                lastCall.raised = (IF lastCall.op = "exit" THEN blockExc ELSE None)

C2_Witness ==
    /\ target.end = "raise" /\ ~reraise
    /\ ReapedAfterExit
    /\ lastCall.op = "join"
    /\ exception = "AssertionError"
    /\ lastCall.raised = None

\* C3: with reraise true, if the child ended with an uncaught exception e,
\* an explicit join() and scope exit that waited for that end both raise e
\* in the caller, and when e is raised exception has already been set to
\* e.
C3_ReraiseAfterJoin ==
    (reraise /\ ReapedAfterExit /\ outcome[1] = "err")
        => (lastCall.raised = outcome[2] /\ exception = outcome[2])

C3_Witness ==
    /\ reraise /\ ReapedAfterExit /\ outcome[1] = "err"
    /\ lastCall.op = "exit"
    /\ lastCall.raised = "AssertionError"
    /\ exception = "AssertionError"

\* C4: for a generator target and every interleaving of send()/go() with
\* get(), the k-th get() that returns yields the k-th value the generator
\* yielded: nothing is reordered, duplicated or skipped.
C4_GetOrder ==
    target.gen =>
        /\ Len(got) <= Len(yielded)
        /\ \A k \in 1..Len(got) : got[k] = yielded[k]
        /\ \A k \in 1..Len(got) :
             target.body[k] # "echo" => got[k] = target.body[k]

\* All the sends were issued before any get (the last call completed is
\* the first get()): it returned the first value and the second one waits
\* in the pipe.
C4_Witness ==
    /\ target.gen
    /\ Len(sent) = 2
    /\ lastCall.op = "get"
    /\ got = <<"1">>
    /\ child_to_parent = <<"2">>

\* C5: the k-th value passed through send() (None for go()) is what the
\* generator's k-th yield expression evaluates to, in send order; a value
\* yielded after the k-th yield that depends on it is what the parent's
\* (k+1)-th get() returns.
C5_SendOrder ==
    target.gen =>
        /\ Len(received) <= Len(sent)
        /\ \A k \in 1..Len(received) : received[k] = sent[k]
        /\ \A k \in 1..Len(got) :
             (k > 1 /\ target.body[k] = "echo") => got[k] = sent[k - 1]

C5_Witness ==
    /\ target.gen
    /\ target.body = <<"echo", "echo">>
    /\ sent = <<"2", None>>
    /\ received = <<"2", None>>
    /\ got = <<"1", "2">>
    /\ inProtocol

\* A generator target with N >= 1 yield points that raises nothing was
\* started and the parent made N get() and N send()/go() calls, get first.
ProtocolDone ==
    /\ target.gen /\ target.end = "stop" /\ Len(target.body) >= 1
    /\ started
    /\ inProtocol
    /\ Len(got) = Len(target.body)
    /\ Len(sent) = Len(target.body)

\* The parent is inside join(): waiting, or reading the queues.
InJoin == pc \in {"join", "join_error", "join_result", "join_raise"}

\* C6: for a generator target with N >= 1 yield points that raises
\* nothing, once the parent has made N get() and N send()/go() calls
\* following the protocol, the child eventually ends by itself (unless
\* the scope is left through an exception or with terminate, which kills
\* it), and a join() then in progress returns.
C6_ProtocolTerminates ==
    /\ (ProtocolDone /\ ~terminate) ~> (cstate = "exited" \/ blockExc # None)
    /\ (ProtocolDone /\ InJoin) ~> (pc = "idle")

C6_Witness ==
    /\ ProtocolDone
    /\ Len(target.body) = 2
    /\ cstate = "exited"
    /\ lastCall.op = "join" /\ ~lastCall.timed
    /\ outcome = <<"ok", None>>

\* C7: for a generator target with N yield points, as long as the parent
\* has issued fewer than N send()/go() calls the child does not terminate
\* by itself (it ends blocked on its read of parent_to_child), and a join()
\* without timeout does not return unless the child was killed.
C7_FewerSendsBlocks ==
    (target.gen /\ started /\ Len(sent) < Len(target.body))
        => /\ cstate # "exited"
           /\ (lastCall.op \in {"join", "exit"} /\ ~lastCall.timed)
                => cstate = "killed"

\* One send of two was made: the child is blocked on its read and the
\* parent is blocked in a join without timeout.
C7_Witness ==
    /\ target.gen /\ Len(target.body) = 2
    /\ Len(sent) = 1 /\ Len(received) = 1
    /\ cstate = "wait" /\ parent_to_child = <<>>
    /\ pc = "join" /\ joinLeft = NoTimeout

\* A generator target with one yield point, never sent anything, is
\* blocked on its read and was never signalled, and a join with a
\* timeout (explicit or the one of __exit__) has completed.
TimedJoinOverBlockedChild ==
    /\ target.gen /\ Len(target.body) = 1
    /\ sent = <<>>
    /\ cstate = "wait" /\ ~sigterm
    /\ lastCall.op \in {"join", "exit"}
    /\ lastCall.timed

\* C8 as stated: for a generator target with exactly one yield point that
\* never receives its final go()/send(), a join() with a timeout does not
\* return when the timeout elapses.
C8_Original == ~TimedJoinOverBlockedChild

\* C8 amended: for such a target a join() with a timeout returns once the
\* timeout has elapsed (only a join without timeout blocks); it raises
\* nothing of its own, leaves the child alive and blocked on its read, and
\* leaves result and exception None.
C8_TimedJoinReturns ==
    /\ (target.gen /\ Len(target.body) = 1 /\ sent = <<>>
          /\ pc = "join" /\ joinLeft = 0)
        => ENABLED JoinWaited
    /\ TimedJoinOverBlockedChild
        => /\ ~lastCall.dead
           /\ is_alive
           /\ result = None /\ exception = None
           /\ lastCall.raised = (IF lastCall.op = "exit" THEN blockExc ELSE None)

C8_Witness ==
    /\ TimedJoinOverBlockedChild
    /\ lastCall.op = "exit"
    /\ blockExc = None
    /\ got = <<"1">>

\* C9 as stated: on a handle whose target is not a generator function,
\* get(), send(v) and go() each raise ValueError.
C9_Original ==
    (~target.gen /\ lastCall.op \in {"get", "send", "go"})
        => lastCall.raised = "ValueError"

\* C10 as stated: with terminate true, whatever the outcome of the block,
\* for a target that loops for ever is_alive() is false immediately after
\* scope exit.
C10_Original ==
    (terminate /\ target.end = "loop" /\ lastCall.op = "exit")
        => lastCall.dead

\* C10 amended: with terminate true and a timeout that is None or long
\* enough for the SIGTERM to take effect (not zero), scope exit returns
\* only once the child is dead, so is_alive() is false immediately after
\* it, also for a target that never finishes by itself. Scope exit does
\* not hang on the way (the kill or the join can go on) unless the kill
\* fell while the child was writing a large result or exception, whose
\* rest the join then waits for.
C10_TerminateKills ==
    /\ (terminate /\ timeout # 0 /\ lastCall.op = "exit") => lastCall.dead
    /\ (terminate /\ timeout # 0 /\ scope = "exiting"
          /\ CanDrain(error_queue) /\ CanDrain(result_queue))
          => (ENABLED JoinStep \/ ENABLED ChildDie)

C10_Witness ==
    /\ terminate /\ timeout = DefaultTimeout
    /\ target.end = "loop"
    /\ lastCall.op = "exit"
    /\ blockExc = None
    /\ cstate = "killed"
    /\ ~is_alive

\* C11 as stated: if the block inside the scope raised (terminate true or
\* false), is_alive() is false once scope exit is over, even for a target
\* that would have kept running.
C11_Original ==
    (blockExc # None /\ lastCall.op = "exit") => lastCall.dead

\* C11 amended: if the block raised, scope exit sends the kill before it
\* joins (while it waits in join a child still alive has a SIGTERM
\* pending); with a timeout that is None or not zero, is_alive() is false
\* once scope exit is over, and a target that never finishes by itself
\* was killed, not waited for.
C11_ExceptionKills ==
    /\ (blockExc # None /\ scope = "exiting" /\ is_alive) => sigterm
    /\ (blockExc # None /\ timeout # 0 /\ lastCall.op = "exit")
          => /\ lastCall.dead
             /\ target.end = "loop" => cstate = "killed"

C11_Witness ==
    /\ ~terminate /\ timeout = NoTimeout
    /\ target.end = "loop"
    /\ blockExc = "BlockError"
    /\ lastCall.op = "exit"
    /\ lastCall.raised = "BlockError"
    /\ cstate = "killed"

\* C12 as stated: after the scope has been exited, whether the block
\* returned normally or raised, the child is finished (is_alive() is
\* false); here with the default timeout.
C12_Original ==
    (timeout = DefaultTimeout /\ lastCall.op = "exit") => lastCall.dead

\* C12 amended: scope exit always ends with a join(timeout); the child is
\* finished after it when the timeout is None (the join waits for the
\* child's end), or when the child was killed (the block raised, or
\* terminate) and the timeout is not zero. Otherwise the join may give up
\* at its deadline and leave the child alive.
C12_ScopeReleases ==
    (lastCall.op = "exit"
       /\ (timeout = NoTimeout
             \/ (timeout # 0 /\ (terminate \/ blockExc # None))))
        => (lastCall.dead /\ ~is_alive)

\* The block ended normally, nothing was killed, and the join without
\* deadline waited for a generator target to finish.
C12_Witness ==
    /\ timeout = NoTimeout /\ ~terminate
    /\ blockExc = None
    /\ target.gen /\ Len(target.body) = 1 /\ target.end = "stop"
    /\ lastCall.op = "exit"
    /\ lastCall.dead
    /\ cstate = "exited"

\* C13 as stated: for every non-generator target, including one that
\* returns None, after a join() that completed normally following the
\* child's end exactly one of result and exception is set (not None).
C13_Original ==
    (~target.gen /\ ReapedAfterExit /\ lastCall.op = "join"
       /\ lastCall.raised = None)
        => ((result # None) # (exception # None))

\* C13 amended: result and exception are never both set; for a
\* non-generator target, after a join() following the child's end (its
\* wait ended because the child had terminated) exactly one of them is
\* set unless the target returned None, in which case both are None as
\* before the join.
C13_NeverBoth ==
    /\ ~(result # None /\ exception # None)
    /\ (~target.gen /\ ReapedAfterExit)
        => IF target.end = "return" /\ target.val = None
           THEN result = None /\ exception = None
           ELSE (result # None) # (exception # None)

C13_Witness ==
    /\ ~target.gen /\ target.end = "return" /\ target.val = None
    /\ ReapedAfterExit
    /\ lastCall.op = "join" /\ lastCall.raised = None
    /\ result_queue = <<>> /\ error_queue = <<>>
    /\ result = None /\ exception = None

\* C14: result and exception are None after construction, and only
\* join() (the explicit call or the one run by __exit__) changes them,
\* exception where it reads error_queue and result where it reads
\* result_queue: start(), get(), send(), go(), is_alive() and every step
\* of the child leave them as they are, so they are still None while the
\* finished child's values wait undrained in the one-shot queues.
C14_OnlyJoinWrites ==
    /\ (result = None /\ exception = None)
    /\ [][ /\ exception' # exception
               => (pc = "join_error" /\ pc' = "join_result")
           /\ result' # result
               => (pc = "join_result" /\ pc' = "join_raise") ]_vars

\* The child has finished and is_alive() said so; no join has drained the
\* queues, and the attributes are still None.
C14_Witness ==
    /\ started /\ cstate = "exited"
    /\ target.end = "return" /\ target.val = "3"
    /\ lastCall.op = "is_alive" /\ lastCall.dead
    /\ result_queue = <<"3">> /\ error_queue = <<None>>
    /\ result = None /\ exception = None

\* C15 as stated: when join(timeout) returns because the timeout elapsed
\* while the child is still alive, it raises nothing and result and
\* exception are left unset (None).
C15_Original ==
    (lastCall.op = "join" /\ lastCall.timed /\ ~lastCall.dead)
        => (lastCall.raised = None /\ result = None /\ exception = None)

\* C16: if the child was killed before it wrote to result_queue or
\* error_queue (both are empty, as are their buffers, and nothing was
\* ever drained from them), every step of the join() that follows,
\* explicit or run by __exit__, leaves result and exception None, and the
\* join raises nothing, with reraise on as well; out of the scope comes
\* only what the block itself raised.
C16_KilledBeforeWrite ==
    [][ ( /\ cstate = "killed"
          /\ error_queue = <<>> /\ result_queue = <<>>
          /\ error_buffer = <<>> /\ result_buffer = <<>>
          /\ result = None /\ exception = None
          /\ InJoin )
        => ( /\ result' = None /\ exception' = None
             /\ pc' = "idle" =>
                  lastCall'.raised =
                    (IF lastCall'.op = "exit" THEN blockExc ELSE None) ) ]_vars

\* A target that never returns was killed by scope exit, and an explicit
\* join() on the dead child has returned, with reraise on.
C16_Witness ==
    /\ reraise
    /\ target.end = "loop"
    /\ cstate = "killed"
    /\ scope = "out"
    /\ lastCall.op = "join" /\ lastCall.dead
    /\ lastCall.raised = None
    /\ result = None /\ exception = None

\* C17: a handle forks at most one child: a child begins to run only on
\* a handle that was never started, a started handle stays started, and
\* start() (or scope entry) on a started handle raises AssertionError and
\* leaves the child it has as it is.
C17_OneChild ==
    [][ /\ started => started'
        /\ (cstate' = "run" /\ cstate # "run") => (~started /\ cstate = "new")
        /\ (started /\ lastCall' # lastCall
              /\ lastCall'.op \in {"start", "enter"})
            => (lastCall'.raised = "AssertionError" /\ child' = child) ]_vars

\* start() was called again while the child was blocked on its read, and
\* was rejected.
C17_Witness ==
    /\ started
    /\ lastCall = Call("start", "AssertionError")
    /\ cstate = "wait"
    /\ is_alive

\* The parent is inside get(), the child has ended or was killed, and
\* child_to_parent's pipe holds no value (what a killed child had put and
\* its feeder thread had not written yet is lost).
GetStuck ==
    /\ pc = "get"
    /\ cstate \in {"exited", "killed"}
    /\ child_to_parent = <<>>

\* C18: a get() that is pending once the child has terminated or was
\* killed, with no undelivered value left in child_to_parent, never
\* returns and never raises: from then on the parent stays inside get()
\* and no call of the parent completes.
C18_GetHangs ==
    /\ [][ GetStuck => (GetStuck' /\ lastCall' = lastCall) ]_vars
    /\ [](GetStuck => ~ENABLED ParentStep)

\* The child was killed by a scope exit that did not wait (timeout 0)
\* while the parent asked for the second value of the generator.
C18_Witness ==
    /\ GetStuck
    /\ cstate = "killed"
    /\ target.gen /\ Len(target.body) = 2
    /\ got = <<"1">>
    /\ scope = "out"

\* C19 as stated: leaving a with-block on the toggle, normally or through
\* an exception, restores the status the toggle had before the block:
\* disabled before, disabled after; enabled before, enabled after.
C19_Original ==
    toggleCall.op = "exit" => enabled = toggleCall.before

\* C20 as stated: for every interleaving of the entering thread with the
\* serving thread, when __enter__ has returned and the body of the with
\* block runs, the listening socket has been initialised (bound).
C20_Original ==
    mainpc = "block" => is_initialized

\* C21 as stated: for every interleaving of the main thread with the
\* serving thread, after __exit__ has returned the serving thread has
\* finished, the socket is closed and the server never starts listening
\* afterwards; here its weakest part: the server is not listening once
\* __exit__ has returned.
C21_Original ==
    mainpc = "out" => socket # "open"

\* C22 as stated, the part on an escaping exception: run() pushes the
\* error to the error channel and nothing to the result channel.
C22_Original ==
    (outcome # <<>> /\ outcome[1] = "err")
        => (result_buffer = <<>> /\ result_queue = <<>>)

\* C22 amended: run() puts exactly one item on each queue, result_queue
\* first: on normal return the returned value and then None on
\* error_queue; on an escaping exception None on result_queue and then
\* the exception on error_queue. At most one of the two items is not None.
C22_RunPuts ==
    /\ [][ (cstate = "put_result" /\ cstate' = "put_error")
            => /\ result_buffer' = Append(result_buffer,
                     IF outcome[1] = "ok" THEN outcome[2] ELSE None)
               /\ UNCHANGED << error_buffer, error_queue, result_queue >> ]_vars
    /\ [][ (cstate = "put_error" /\ cstate' = "exit")
            => /\ error_buffer' = Append(error_buffer,
                     IF outcome[1] = "ok" THEN None ELSE outcome[2])
               /\ UNCHANGED << result_buffer, error_queue >> ]_vars
    /\ []( /\ Len(result_buffer) + Len(result_queue) <= 1
           /\ Len(error_buffer) + Len(error_queue) <= 1 )
    /\ []((result_buffer \o result_queue # <<>>
             /\ error_buffer \o error_queue # <<>>)
            => \/ Head(result_buffer \o result_queue) = None
               \/ Head(error_buffer \o error_queue) = None)

\* run() has ended after the target raised; no join has drained the
\* queues yet.
C22_Witness ==
    /\ ~target.gen /\ target.end = "raise"
    /\ cstate = "exit"
    /\ result_queue = <<None>>
    /\ error_queue = <<"AssertionError">>

\* C23: the child alternates strictly: the values it has put on
\* child_to_parent are at most one more than the values it has taken from
\* parent_to_child, the values taken are a prefix of the values the
\* parent has sent, and the child puts its (k+1)-th yielded value only
\* once it has taken the k-th sent value.
C23_Alternation ==
    /\ [](/\ Len(yielded) <= Len(received) + 1
          /\ Len(received) <= Len(sent)
          /\ \A k \in 1..Len(received) : received[k] = sent[k])
    /\ [][ Len(yielded') = Len(yielded) + 1
             => Len(received) = Len(yielded) ]_vars

\* The child has taken the first of two sent values and put its second
\* yielded value; the second sent value is still in the channel.
C23_Witness ==
    /\ target.gen
    /\ sent = <<"2", None>>
    /\ received = <<"2">>
    /\ parent_to_child = <<None>>
    /\ Len(yielded) = 2
    /\ cstate = "wait"

\* C24 as stated: whenever the generator of a generator target ends with
\* StopIteration, also when it is first advanced, Conversation.start
\* returns normally: after a join() that follows the child's end,
\* exception is None.
C24_Original ==
    (target.gen /\ target.end = "stop" /\ ReapedAfterExit)
        => exception = None

\* C25: if the generator raises an exception other than StopIteration
\* while it is resumed, the exception escapes converse and start to
\* run(): the child's outcome is that error, no further value is put on
\* child_to_parent, and after a join() that follows the child's end
\* exception is that exception and result is None.
C25_GeneratorRaises ==
    (target.gen /\ target.end = "raise" /\ Len(target.body) >= 1
       /\ cstate \in {"put_result", "put_error", "exit", "exited"})
        => /\ outcome = <<"err", target.val>>
           /\ Len(yielded) = Len(target.body)
           /\ Len(received) = Len(target.body)
           /\ ReapedAfterExit => (exception = target.val /\ result = None)

C25_Witness ==
    /\ target.gen /\ target.end = "raise" /\ Len(target.body) = 1
    /\ ReapedAfterExit
    /\ yielded = <<"1">>
    /\ Len(received) = 1
    /\ exception = "AssertionError" /\ result = None

\* C26: an explicit join() called without timeout waits until the child
\* has terminated, whatever timeout the handle was constructed with: it
\* cannot return while the child is alive, and when it has completed the
\* child is dead. The join run by scope exit is the one that uses the
\* constructed timeout.
C26_JoinWithoutTimeout ==
    /\ (pc = "join" /\ joinLeft = NoTimeout /\ is_alive)
         => ~ENABLED JoinWaited
    /\ (started /\ lastCall.op = "join" /\ ~lastCall.timed)
         => (lastCall.reaped /\ lastCall.dead)
    /\ lastCall.op = "exit" => (lastCall.timed <=> timeout # NoTimeout)
    /\ scope = "exiting" => joinLeft \in {timeout, timeout - 1, 0}

\* A handle constructed with timeout 0 whose target never returns: the
\* parent is inside an explicit join() without timeout.
C26_Witness ==
    /\ timeout = 0
    /\ target.end = "loop"
    /\ scope = "none"
    /\ pc = "join" /\ joinLeft = NoTimeout
    /\ is_alive

\* A generator target with N yield points that raises nothing was started
\* and the parent has issued N send()/go() calls.
SendsDone ==
    /\ target.gen /\ target.end = "stop"
    /\ started
    /\ Len(sent) >= Len(target.body)

\* Every large value the generator yields was taken by the parent: what
\* is left undelivered on child_to_parent fits in its pipe.
LargeTaken ==
    \A i \in 1..Len(target.body) : Large(target.body[i]) => Len(got) >= i

\* C27 as stated: for a generator target with N yield points that raises
\* nothing, once the parent has issued N send()/go() calls, however many
\* get() calls it made (none included), the child eventually exits and a
\* join() in progress returns; send() and go() never block.
C27_Original ==
    /\ SendsDone ~> (cstate \in {"exited", "killed"})
    /\ (SendsDone /\ InJoin) ~> (pc = "idle")
    /\ []((pc = "idle" /\ Len(sent) < MaxSends) => ENABLED Go)

\* C27 amended: for a generator target with N yield points that raises
\* nothing, once the parent has issued N send()/go() calls, however many
\* get() calls it made, the child runs through its N yield points and
\* run() comes to its end. The child process then exits (unless scope
\* exit killed it first) and a join() in progress returns provided the
\* parent has taken every large value that was yielded: a child whose
\* feeder thread is left with a large value the parent did not take never
\* exits, and only a join() with a timeout returns (once its deadline has
\* passed it goes on to read the queues and returns).
\* send() and go() never block: each call completes in one step, leaving
\* its value in the buffer of parent_to_child, whatever is still unread
\* there, and while the parent is idle the next one can complete at once.
C27_SendsTerminate ==
    /\ SendsDone ~> \/ cstate \in {"exited", "killed"}
                    \/ cstate = "exit" /\ ~LargeTaken
    /\ (SendsDone /\ LargeTaken /\ InJoin) ~> (pc = "idle")
    /\ []((SendsDone /\ InJoin /\ (joinLeft = 0 \/ pc # "join"))
            => ENABLED JoinStep)
    /\ []((target.gen /\ cstate = "exited") => LargeTaken)
    /\ [][ sent' # sent
            => /\ pc = "idle" /\ pc' = "idle"
               /\ lastCall'.op \in {"send", "go"} /\ lastCall'.raised = None
               /\ parent_to_child_buffer' =
                    Append(parent_to_child_buffer, sent'[Len(sent')])
               /\ parent_to_child' = parent_to_child ]_vars
    /\ []((pc = "idle" /\ Len(sent) < MaxSends) => ENABLED Go)

\* Two sends, no get: the child went through both yield points and
\* ended, and the join without timeout returned.
C27_Witness ==
    /\ SendsDone
    /\ Len(target.body) = 2
    /\ got = <<>>
    /\ Len(yielded) = 2
    /\ cstate = "exited"
    /\ lastCall.op = "join" /\ ~lastCall.timed /\ lastCall.dead

\* The parent, having received k values and issued k-1 send()/go()
\* calls, is inside get() for the next value.
GetAhead ==
    /\ target.gen
    /\ pc = "get"
    /\ Len(got) = Len(sent) + 1

\* C28: a parent that calls get() for the (k+1)-th value after receiving
\* k values and issuing only k-1 send()/go() calls deadlocks: both
\* channels are empty (pipes and buffers: no feeder thread has anything
\* left to write), the parent is blocked in get(), the child is blocked
\* on its read of parent_to_child (or was killed), neither can take a
\* step, and this lasts for ever.
C28_Deadlock ==
    /\ [](GetAhead =>
            /\ child_to_parent = <<>> /\ parent_to_child = <<>>
            /\ child_to_parent_buffer = <<>> /\ parent_to_child_buffer = <<>>
            /\ cstate \in {"wait", "killed"}
            /\ ~ENABLED ParentStep
            /\ ~ENABLED FeedParentToChild
            /\ ~ENABLED ChildStep)
    /\ [][ GetAhead => GetAhead' ]_vars

\* One value received, nothing sent, a second get() issued on a generator
\* with two yield points: the child waits for the parent and the parent
\* for the child.
C28_Witness ==
    /\ GetAhead
    /\ Len(target.body) = 2
    /\ got = <<"1">> /\ sent = <<>>
    /\ cstate = "wait"
    /\ scope = "none"

\* C29 as stated: if the block raises X, X is the exception that
\* propagates out of the scope, for every configuration of the handle,
\* reraise with an already failed child included.
C29_Original ==
    (lastCall.op = "exit" /\ blockExc # None) => lastCall.raised = blockExc

\* C29 amended: scope exit never suppresses an exception: if the block
\* raised X, X propagates out of the scope unless reraise is set and the
\* join run by scope exit has captured an exception of the child, which
\* then propagates in place of X; without reraise X always propagates.
\* (The exception attribute is compared before a later join() reads the
\* queue again.)
C29_ExitPropagates ==
    (lastCall.op = "exit" /\ ~InJoin)
        => /\ lastCall.raised =
                (IF reraise /\ exception # None THEN exception ELSE blockExc)
           /\ blockExc # None => lastCall.raised # None

\* The target raised, the block raised too, reraise is set: out of the
\* scope comes the child's exception.
C29_Witness ==
    /\ reraise
    /\ target.end = "raise"
    /\ blockExc = "BlockError"
    /\ lastCall.op = "exit"
    /\ lastCall.raised = "AssertionError"
    /\ exception = "AssertionError"

\* C30 as stated: with-blocks on the same toggle compose when nested: for
\* a toggle that was disabled before the outermost block, once all the
\* blocks have been left the toggle is disabled again.
C30_Original ==
    (toggleCall.op = "exit" /\ entered = <<>> /\ toggleCall.before = False)
        => enabled = False
=============================================================================
